---------------------------- MODULE Spec2Model ----------------------------
(***************************************************************************)
(* Model of axon_erp/api.py: the three whitelisted endpoints get_boot,     *)
(* get_csrf_token and get_new_doc, run by framework workers that each hold *)
(* their own frappe.local and share one session record in the session      *)
(* store.                                                                  *)
(***************************************************************************)
EXTENDS Integers, Sequences, FiniteSets, TLC

(* ------------------------------ bounds -------------------------------- *)
\* number of distinct values frappe.generate_hash() is drawn from
NumHashes == 2
\* longest field list of a doctype's schema
MaxFields == 2
\* endpoint calls dispatched in one behaviour
MaxCalls == 3

Workers == {"w1", "w2"}

(* ------------------------------ values -------------------------------- *)
\* Python None, the empty string and a generated hash, as session.data.csrf_token
None == <<"None">>
EmptyStr == <<"str", "">>
Hash(i) == <<"hash", i>>
Hashes == {Hash(i) : i \in 1..NumHashes}
TokenValues == {None, EmptyStr} \cup Hashes
\* frappe.local of a worker that serves no request
Unbound == <<"unbound">>

\* Python truthiness of a csrf_token value (`not x` at line 45)
Truthy(t) == t \notin {None, EmptyStr}

\* Python values a caller can pass as with_mandatory_children; the default is False
WmcValues == {"omitted", "False", "True", "'0'", "''"}
WmcArg(v) == IF v = "omitted" THEN "False" ELSE v
WmcTruthy(v) == WmcArg(v) \in {"True", "'0'"}

Users == {"Guest", "Administrator"}

NoResponse == [method |-> "none"]
NoCall == [entry |-> None, gen |-> None, forced |-> None, prevCtx |-> None,
           prevAny |-> None, seqRun |-> FALSE]

(* ------------------------------- state -------------------------------- *)
VARIABLES
    user,       \* identity of the session: "Guest" or a logged-in user
    in_test,    \* frappe.flags.in_test
    store,      \* csrf_token of the session record in the session store
    db,         \* persisted documents
    meta,       \* per doctype: the schema the metadata engine holds
    local,      \* per worker: frappe.local.session.data.csrf_token, or Unbound
    pc,         \* per worker: position inside get_csrf_token, or "idle"
    response,   \* per worker: what its last endpoint call returned or raised
    call,       \* per worker: what its current or last get_csrf_token call did
    ctxRet,     \* per worker: token last returned inside its current frappe.local
    lastRet,    \* token last returned to any caller of the session
    overlapped, \* two workers have held the session at the same time
    lastForcedBy, \* the worker whose forced update wrote the store last, or "none"
    calls       \* endpoint calls dispatched so far

vars == <<user, in_test, store, db, meta, local, pc, response, call, ctxRet, lastRet,
          overlapped, lastForcedBy, calls>>

(* --------------------------- the decorators --------------------------- *)
\* every endpoint whitelisted for guests
allow_guest_all(method) == TRUE

\* @frappe.whitelist(allow_guest=True) on get_boot, @frappe.whitelist() on the others
allow_guest(method) == method = "get_boot"

\* the request handler's whitelist check: a guest may call guest methods only
is_whitelisted(method, u) == u # "Guest" \/ allow_guest(method)

Rejected(method, u) ==
    [method |-> method, user |-> u, status |-> "PermissionError",
     raisedBy |-> "handler", steps |-> <<>>]

(* ------------------------------ get_boot ------------------------------ *)
\* payloads frappe.sessions.get() can hand back for a user: the framework decides
\* which keys beyond the identity are present
\* the DocType table, in name order: name, istable, issingle
DocTypeTable ==
    << <<"Customer", 0, 0>>, <<"Item", 0, 0>>, <<"Item Tax", 1, 0>>,
       <<"System Settings", 0, 1>> >>
DocTypeRow(i) == DocTypeTable[i]
RECURSIVE NamesFrom(_)
NamesFrom(i) ==
    IF i > Len(DocTypeTable) THEN <<>>
    ELSE IF DocTypeRow(i)[2] = 0 /\ DocTypeRow(i)[3] = 0
         THEN <<DocTypeRow(i)[1]>> \o NamesFrom(i + 1)
         ELSE NamesFrom(i + 1)
\* every non-child, non-singleton doctype, by name
NavigableDocTypes == NamesFrom(1)

ModuleMaps == {<<>>, <<"frappe">>}
DoctypeLists == {<<>>, NavigableDocTypes}
BootInfos(u) ==
    {[user |-> u]}
    \cup {[user |-> u, module_app |-> m] : m \in ModuleMaps}
    \cup {[user |-> u, module_app |-> m, all_doctypes |-> l] :
             m \in ModuleMaps, l \in DoctypeLists}

\* get_boot with the guest fast path of the other variants
get_boot_guest_fastpath(boot, session) ==
    IF boot.user = "Guest"
    THEN [result |-> [user |-> "Guest", module_app |-> <<>>, all_doctypes |-> <<>>],
          steps |-> <<>>, session |-> session]
    ELSE [result |-> boot, steps |-> <<"sessions.get">>, session |-> session]

\* get_boot with the object-type augmentation of the other variants
get_boot_augmented(boot, session) ==
    [result |-> [k \in DOMAIN boot \cup {"all_doctypes"} |->
                    IF k = "all_doctypes" THEN NavigableDocTypes ELSE boot[k]],
     steps |-> <<"sessions.get", "get_all">>, session |-> session]

\* lines 29-30: boot = frappe.sessions.get(); return boot
get_boot(boot, session) ==
    [result |-> boot, steps |-> <<"sessions.get">>, session |-> session]

(* ----------------------------- get_new_doc ---------------------------- *)
FieldTypes == {"Table", "Data"}
FieldKinds == FieldTypes \X {0, 1}
\* the schemas the metadata engine can hold for a doctype: the kinds of its fields
Schemas == UNION {[1..n -> FieldKinds] : n \in 0..MaxFields}
DocTypeNames == {"SomeType"}

\* frappe.get_meta(doctype).fields
get_meta(doctype) ==
    [fields |-> [i \in DOMAIN meta[doctype] |->
                    [fieldname |-> i, fieldtype |-> meta[doctype][i][1],
                     reqd |-> meta[doctype][i][2]]]]

\* frappe.new_doc(doctype) that also inserts the instance
new_doc_insert(doctype, docs) ==
    LET d == [doctype |-> doctype, islocal |-> TRUE, onload |-> FALSE,
              values |-> [i \in DOMAIN meta[doctype] |->
                            IF meta[doctype][i][1] = "Table" THEN <<>>
                            ELSE <<"default">>]]
    IN [doc |-> d, db |-> docs \cup {d}]

\* frappe.new_doc(doctype): an unsaved instance with defaults, child tables empty
new_doc(doctype, docs) ==
    [doc |-> [doctype |-> doctype, islocal |-> TRUE, onload |-> FALSE,
              values |-> [i \in DOMAIN meta[doctype] |->
                            IF meta[doctype][i][1] = "Table" THEN <<>>
                            ELSE <<"default">>]],
     db |-> docs]

\* doc.run_method('onload')
run_onload(doc) == [doc EXCEPT !.onload = TRUE]

\* doc.append(fieldname, {}): one empty child row at the end of the table
append(doc, fieldname) ==
    [doc EXCEPT !.values[fieldname] =
        Append(@, [parentfield |-> fieldname, idx |-> Len(@) + 1])]

\* lines 96-98 with the reqd test dropped
RECURSIVE append_children_all_tables(_, _, _)
append_children_all_tables(st, fields, i) ==
    IF i > Len(fields) THEN st
    ELSE IF fields[i].fieldtype = "Table"
         THEN append_children_all_tables(
                  [st EXCEPT !.doc = append(st.doc, fields[i].fieldname),
                             !.steps = Append(st.steps, "append")],
                  fields, i + 1)
         ELSE append_children_all_tables(st, fields, i + 1)

RECURSIVE append_children(_, _, _)
\* lines 96-98: for df in meta.fields: if Table and reqd: doc.append(df.fieldname, {})
append_children(st, fields, i) ==
    IF i > Len(fields) THEN st
    ELSE IF fields[i].fieldtype = "Table" /\ fields[i].reqd # 0
         THEN append_children(
                  [st EXCEPT !.doc = append(st.doc, fields[i].fieldname),
                             !.steps = Append(st.steps, "append")],
                  fields, i + 1)
         ELSE append_children(st, fields, i + 1)

\* doc.as_dict()
as_dict(doc) ==
    [doctype |-> doc.doctype, __islocal |-> doc.islocal, __onload |-> doc.onload,
     fields |-> doc.values]

\* get_new_doc that builds the instance before it checks the permission
get_new_doc_late_check(doctype, with_mandatory_children, perm, docs) ==
    LET c == new_doc(doctype, docs)
        d == run_onload(c.doc)
    IN IF ~perm
       THEN [status |-> "PermissionError", raisedBy |-> "get_new_doc",
             steps |-> <<"new_doc", "onload", "has_permission", "throw">>, db |-> c.db]
       ELSE [status |-> "ok", raisedBy |-> "none", result |-> as_dict(d),
             steps |-> <<"new_doc", "onload", "has_permission", "as_dict">>,
             db |-> c.db]

\* lines 84-102; perm is the answer of frappe.has_permission(doctype, "create")
get_new_doc(doctype, with_mandatory_children, perm, docs) ==
    IF ~perm
    THEN [status |-> "PermissionError", raisedBy |-> "get_new_doc",
          steps |-> <<"has_permission", "throw">>, db |-> docs]
    ELSE LET c == new_doc(doctype, docs)
             s1 == [doc |-> run_onload(c.doc),
                    steps |-> <<"has_permission", "new_doc", "onload">>]
             s2 == IF WmcTruthy(with_mandatory_children)
                   THEN append_children(
                            [s1 EXCEPT !.steps = Append(@, "get_meta")],
                            get_meta(doctype).fields, 1)
                   ELSE s1
         IN [status |-> "ok", raisedBy |-> "none", result |-> as_dict(s2.doc),
             steps |-> Append(s2.steps, "as_dict"), db |-> c.db]

\* what every specification starts from: no worker holds the session, nothing called
InitWorkers ==
    /\ db = {}
    /\ local = [w \in Workers |-> Unbound]
    /\ pc = [w \in Workers |-> "idle"]
    /\ response = [w \in Workers |-> NoResponse]
    /\ call = [w \in Workers |-> NoCall]
    /\ ctxRet = [w \in Workers |-> None]
    /\ lastRet = None
    /\ overlapped = FALSE
    /\ lastForcedBy = "none"
    /\ calls = 0

\* the session as the store can hold it; the doctype has no fields
Init ==
    /\ InitWorkers
    /\ user \in Users
    /\ in_test \in BOOLEAN
    /\ store \in TokenValues
    /\ meta = [d \in DocTypeNames |-> <<>>]

\* the doctype's schema as the metadata engine can hold it
InitDoc ==
    /\ InitWorkers
    /\ user \in Users
    /\ in_test \in BOOLEAN
    /\ store \in {None, Hash(1)}
    /\ meta \in [DocTypeNames -> Schemas]

(* ----------------------- the framework's workers ---------------------- *)
\* a request begins: the worker's frappe.local.session is loaded from the store
Connect(w) ==
    /\ local[w] = Unbound
    /\ calls < MaxCalls
    /\ local' = [local EXCEPT ![w] = store]
    /\ ctxRet' = [ctxRet EXCEPT ![w] = None]
    /\ overlapped' = (overlapped \/ \E v \in Workers \ {w} : local[v] # Unbound)
    /\ UNCHANGED <<user, in_test, store, db, meta, pc, response, call, lastRet, lastForcedBy, calls>>

\* the request ends: frappe.local is released
Destroy(w) ==
    /\ local[w] # Unbound
    /\ pc[w] = "idle"
    /\ local' = [local EXCEPT ![w] = Unbound]
    /\ UNCHANGED <<user, in_test, store, db, meta, pc, response, call, ctxRet, lastRet,
                   overlapped, lastForcedBy, calls>>

Ready(w) == local[w] # Unbound /\ pc[w] = "idle" /\ calls < MaxCalls

(* --------------------------- get_csrf_token --------------------------- *)
\* dispatch of /api/method/axon_erp.api.get_csrf_token
CallCsrf(w) ==
    /\ Ready(w)
    /\ calls' = calls + 1
    /\ IF is_whitelisted("get_csrf_token", user)
       THEN /\ pc' = [pc EXCEPT ![w] = "L45"]
            /\ response' = [response EXCEPT ![w] = NoResponse]
            /\ call' = [call EXCEPT ![w] =
                          [entry |-> local[w], gen |-> None, forced |-> None,
                           prevCtx |-> ctxRet[w], prevAny |-> lastRet,
                           seqRun |-> ~overlapped]]
       ELSE /\ response' = [response EXCEPT ![w] = Rejected("get_csrf_token", user)]
            /\ UNCHANGED <<pc, call>>
    /\ UNCHANGED <<user, in_test, store, db, meta, local, ctxRet, lastRet, overlapped, lastForcedBy>>

\* line 45 with the test dropped: a token is generated on every call
TokenAbsent_always(t) == TRUE

\* line 45: if not frappe.local.session.data.csrf_token
TokenAbsent(t) == ~Truthy(t)

\* line 45 behind a lock held from the test to the return
csrf_L45_locked(w) ==
    /\ pc[w] = "L45"
    /\ \A v \in Workers \ {w} : pc[v] = "idle"
    /\ pc' = [pc EXCEPT ![w] = IF TokenAbsent(local[w]) THEN "L47" ELSE "L51"]
    /\ UNCHANGED <<user, in_test, store, db, meta, local, response, call, ctxRet, lastRet,
                   overlapped, lastForcedBy, calls>>

csrf_L45(w) ==
    /\ pc[w] = "L45"
    /\ pc' = [pc EXCEPT ![w] = IF TokenAbsent(local[w]) THEN "L47" ELSE "L51"]
    /\ UNCHANGED <<user, in_test, store, db, meta, local, response, call, ctxRet, lastRet,
                   overlapped, lastForcedBy, calls>>

\* line 47: frappe.local.session.data.csrf_token = frappe.generate_hash()
csrf_L47(w) ==
    /\ pc[w] = "L47"
    /\ \E h \in Hashes :
          /\ local' = [local EXCEPT ![w] = h]
          /\ call' = [call EXCEPT ![w].gen = h]
    /\ pc' = [pc EXCEPT ![w] = "L48"]
    /\ UNCHANGED <<user, in_test, store, db, meta, response, ctxRet, lastRet, overlapped,
                   lastForcedBy, calls>>

\* line 48 with the test-mode guard dropped
ForcesUpdate_always(flag) == TRUE

\* line 48: if not frappe.flags.in_test
ForcesUpdate(flag) == ~flag

\* line 49: session_obj.update(force=True) writes the worker's session data over the
\* stored record
session_update(stored, data) == data

\* lines 48-49
csrf_L48(w) ==
    /\ pc[w] = "L48"
    /\ IF ForcesUpdate(in_test)
       THEN /\ store' = session_update(store, local[w])
            /\ call' = [call EXCEPT ![w].forced = local[w]]
            /\ lastForcedBy' = w
       ELSE UNCHANGED <<store, call, lastForcedBy>>
    /\ pc' = [pc EXCEPT ![w] = "L51"]
    /\ UNCHANGED <<user, in_test, db, meta, local, response, ctxRet, lastRet, overlapped,
                   calls>>

\* lines 51-53: return {'csrf_token': frappe.local.session.data.csrf_token}
csrf_L51(w) ==
    /\ pc[w] = "L51"
    /\ response' = [response EXCEPT ![w] =
                      [method |-> "get_csrf_token", user |-> user, status |-> "ok",
                       csrf_token |-> local[w]]]
    /\ ctxRet' = [ctxRet EXCEPT ![w] = local[w]]
    /\ lastRet' = local[w]
    /\ pc' = [pc EXCEPT ![w] = "idle"]
    /\ UNCHANGED <<user, in_test, store, db, meta, local, call, overlapped, lastForcedBy,
                   calls>>

(* ------------------------------ get_boot ------------------------------ *)
CallGetBoot(w) ==
    /\ Ready(w)
    /\ calls' = calls + 1
    /\ IF is_whitelisted("get_boot", user)
       THEN \E boot \in BootInfos(user) :
               LET r == get_boot(boot, local[w])
               IN /\ response' = [response EXCEPT ![w] =
                        [method |-> "get_boot", user |-> user, status |-> "ok",
                         raisedBy |-> "none", result |-> r.result,
                         steps |-> r.steps, boot |-> boot]]
                  /\ local' = [local EXCEPT ![w] = r.session]
       ELSE /\ response' = [response EXCEPT ![w] = Rejected("get_boot", user)]
            /\ UNCHANGED local
    /\ UNCHANGED <<user, in_test, store, db, meta, pc, call, ctxRet, lastRet, overlapped, lastForcedBy>>

(* ----------------------------- get_new_doc ---------------------------- *)
CallGetNewDoc(w) ==
    /\ Ready(w)
    /\ calls' = calls + 1
    /\ IF is_whitelisted("get_new_doc", user)
       THEN \E doctype \in DocTypeNames, wmc \in WmcValues, perm \in BOOLEAN :
               LET r == get_new_doc(doctype, wmc, perm, db)
               IN /\ response' = [response EXCEPT ![w] =
                        [method |-> "get_new_doc", user |-> user, status |-> r.status,
                         raisedBy |-> r.raisedBy, doctype |-> doctype, wmc |-> wmc,
                         perm |-> perm,
                         result |-> IF r.status = "ok" THEN r.result ELSE <<>>,
                         steps |-> r.steps]]
                  /\ db' = r.db
       ELSE /\ response' = [response EXCEPT ![w] = Rejected("get_new_doc", user)]
            /\ UNCHANGED db
    /\ UNCHANGED <<user, in_test, store, meta, local, pc, call, ctxRet, lastRet, overlapped, lastForcedBy>>

\* two workers serve the session: the token and boot endpoints
Next ==
    \E w \in Workers :
        \/ Connect(w)
        \/ Destroy(w)
        \/ CallCsrf(w)
        \/ csrf_L45(w)
        \/ csrf_L47(w)
        \/ csrf_L48(w)
        \/ csrf_L51(w)
        \/ CallGetBoot(w)

Spec == Init /\ [][Next]_vars

\* one worker serves the session: all three endpoints, one request after another
NextDoc ==
    \/ Connect("w1")
    \/ Destroy("w1")
    \/ CallCsrf("w1")
    \/ csrf_L45("w1")
    \/ csrf_L47("w1")
    \/ csrf_L48("w1")
    \/ csrf_L51("w1")
    \/ CallGetBoot("w1")
    \/ CallGetNewDoc("w1")

SpecDoc == InitDoc /\ [][NextDoc]_vars

(* ------------------------------ properties ---------------------------- *)
CsrfDone(w) == response[w].method = "get_csrf_token" /\ response[w].status = "ok"
BootDone(w) == response[w].method = "get_boot" /\ response[w].status = "ok"
NewDocCalled(w) == response[w].method = "get_new_doc" /\ response[w].raisedBy # "handler"
NewDocDone(w) == response[w].method = "get_new_doc" /\ response[w].status = "ok"
Count(s, x) == Cardinality({i \in DOMAIN s : s[i] = x})

C2_ExistingTokenReturned ==
    \A w \in Workers :
        Truthy(call[w].entry) =>
            /\ pc[w] \notin {"L47", "L48"}
            /\ pc[w] # "idle" => local[w] = call[w].entry
            /\ call[w].gen = None
            /\ call[w].forced = None
            /\ CsrfDone(w) => response[w].csrf_token = call[w].entry

C2_Witness ==
    \E w \in Workers :
        /\ CsrfDone(w) /\ Truthy(call[w].entry)
        /\ response[w].csrf_token = call[w].entry
        /\ local[w] = call[w].entry

\* C3: a call that finds no token generates one and stores it in the session's data
\* bag; outside test mode the forced update has written that token before line 51
\* returns, in test mode no forced update happens; the token returned is the one
\* generated.
C3_AbsentTokenGenerated ==
    \A w \in Workers :
        (pc[w] \in {"L48", "L51"} \/ CsrfDone(w)) /\ ~Truthy(call[w].entry) =>
            /\ call[w].gen \in Hashes
            /\ pc[w] \in {"L48", "L51"} => local[w] = call[w].gen
            /\ pc[w] = "L48" => call[w].forced = None
            /\ (pc[w] = "L51" \/ CsrfDone(w)) =>
                   call[w].forced = IF in_test THEN None ELSE call[w].gen
            /\ CsrfDone(w) => response[w].csrf_token = call[w].gen

\* outside test mode: generated, persisted, returned
C3_Witness ==
    \E w \in Workers :
        /\ CsrfDone(w) /\ ~Truthy(call[w].entry) /\ ~in_test
        /\ call[w].forced = response[w].csrf_token
        /\ store = response[w].csrf_token

\* C4: get_new_doc for a caller without create permission raises PermissionError
\* after the permission check alone: no new_doc, no onload, no get_meta, no append,
\* nothing returned, nothing persisted.
C4_NoPermissionNoConstruction ==
    \A w \in Workers :
        NewDocCalled(w) /\ ~response[w].perm =>
            /\ response[w].status = "PermissionError"
            /\ response[w].raisedBy = "get_new_doc"
            /\ response[w].steps[1] = "has_permission"
            /\ \A i \in DOMAIN response[w].steps :
                   response[w].steps[i] \notin {"new_doc", "onload", "get_meta", "append",
                                                "as_dict"}
            /\ response[w].result = <<>>
            /\ db = {}

C4_Witness ==
    \E w \in Workers :
        /\ NewDocCalled(w) /\ ~response[w].perm
        /\ response[w].status = "PermissionError"
        /\ Len(meta[response[w].doctype]) > 0

\* C5: for a caller with create permission, with_mandatory_children=True puts
\* exactly one empty row into every Table field that is reqd and leaves every other
\* field as new_doc made it; with the flag omitted or False no row is appended.
C5_MandatoryChildren ==
    \A w \in Workers :
        NewDocDone(w) /\ response[w].wmc \in {"True", "False", "omitted"} =>
            LET fields == get_meta(response[w].doctype).fields
                got == response[w].result.fields
            IN /\ DOMAIN got = DOMAIN fields
               /\ \A i \in DOMAIN fields :
                     got[i] =
                        IF fields[i].fieldtype # "Table" THEN <<"default">>
                        ELSE IF response[w].wmc = "True" /\ fields[i].reqd = 1
                             THEN <<[parentfield |-> fields[i].fieldname, idx |-> 1]>>
                             ELSE <<>>

\* a schema with a required and an optional Table field, called with the flag set
C5_Witness ==
    \E w \in Workers :
        /\ NewDocDone(w) /\ response[w].wmc = "True"
        /\ \E i, j \in DOMAIN meta[response[w].doctype] :
              /\ meta[response[w].doctype][i] = <<"Table", 1>>
              /\ meta[response[w].doctype][j] = <<"Table", 0>>
              /\ Len(response[w].result.fields[i]) = 1
              /\ Len(response[w].result.fields[j]) = 0

\* C6 as stated: a guest's get_boot returns identity "Guest", an empty object-type
\* list and an empty module mapping without calling the session-initialization
\* routine and without touching the token.
C6_Original ==
    \A w \in Workers :
        BootDone(w) /\ response[w].user = "Guest" =>
            /\ response[w].result.user = "Guest"
            /\ "sessions.get" \notin {response[w].steps[i] : i \in DOMAIN response[w].steps}
            /\ "all_doctypes" \in DOMAIN response[w].result
            /\ response[w].result.all_doctypes = <<>>
            /\ "module_app" \in DOMAIN response[w].result
            /\ response[w].result.module_app = <<>>
            /\ local[w] \in {Unbound, store}

\* C6 as amended: a guest's get_boot succeeds, calls frappe.sessions.get() exactly
\* once and returns the payload it produced unchanged (there is no guest fast path),
\* and no token is generated, stored in the session or persisted.
C6_GuestBootIsSessionsGet ==
    \A w \in Workers :
        /\ response[w].method = "get_boot" /\ response[w].user = "Guest" =>
               /\ response[w].status = "ok"
               /\ response[w].steps = <<"sessions.get">>
               /\ response[w].result = response[w].boot
        /\ user = "Guest" =>
               /\ local[w] \in {Unbound, store}
               /\ call[w] = NoCall
               /\ lastForcedBy = "none"

\* a guest got a payload that carries no object-type list
C6_Witness ==
    \E w \in Workers :
        /\ BootDone(w) /\ response[w].user = "Guest"
        /\ "all_doctypes" \notin DOMAIN response[w].result
        /\ local[w] = store

\* C7 as stated: an authenticated caller's get_boot payload carries the list of
\* every non-child, non-singleton doctype, by name.
C7_Original ==
    \A w \in Workers :
        BootDone(w) /\ response[w].user # "Guest" =>
            /\ "all_doctypes" \in DOMAIN response[w].result
            /\ response[w].result.all_doctypes = NavigableDocTypes

\* C7 as amended: an authenticated caller's get_boot returns the payload of
\* frappe.sessions.get() unchanged; it makes no listing call and adds no object-type
\* list, so the payload carries one exactly when sessions.get() supplied it.
C7_AuthBootIsSessionsGet ==
    \A w \in Workers :
        response[w].method = "get_boot" /\ response[w].user # "Guest" =>
            /\ response[w].status = "ok"
            /\ "get_all" \notin {response[w].steps[i] : i \in DOMAIN response[w].steps}
            /\ response[w].result = response[w].boot
            /\ ("all_doctypes" \in DOMAIN response[w].result)
                   = ("all_doctypes" \in DOMAIN response[w].boot)

C7_Witness ==
    \E w \in Workers :
        /\ BootDone(w) /\ response[w].user # "Guest"
        /\ "all_doctypes" \notin DOMAIN response[w].result
        /\ response[w].steps = <<"sessions.get">>

\* C8: nothing excludes two get_csrf_token calls of one session from interleaving:
\* each step of a call is enabled whatever the other worker is doing, a call that
\* generated a token returns its own token, and the store holds what the last
\* forced update wrote.
C8_NoLockLastWriteWins ==
    \A w \in Workers :
        /\ pc[w] = "L45" => ENABLED csrf_L45(w)
        /\ pc[w] = "L47" => ENABLED csrf_L47(w)
        /\ pc[w] = "L48" => ENABLED csrf_L48(w)
        /\ pc[w] = "L51" => ENABLED csrf_L51(w)
        /\ (CsrfDone(w) /\ call[w].gen # None) => response[w].csrf_token = call[w].gen
        /\ (lastForcedBy = w /\ call[w].forced # None) => store = call[w].forced

\* both calls saw no token, the two callers hold different tokens and the store
\* holds only the one written last
C8_Witness ==
    /\ CsrfDone("w1") /\ CsrfDone("w2")
    /\ ~Truthy(call["w1"].entry) /\ ~Truthy(call["w2"].entry)
    /\ response["w1"].csrf_token # response["w2"].csrf_token
    /\ call["w1"].forced = response["w1"].csrf_token
    /\ call["w2"].forced = response["w2"].csrf_token
    /\ lastForcedBy = "w2"
    /\ store = response["w2"].csrf_token

\* C9: a guest's get_csrf_token is rejected by the whitelist check before line 45:
\* no token generated, the session's data and the stored record untouched; a guest's
\* get_boot returns normally.
C9_GuestRejectedForToken ==
    user = "Guest" =>
        \A w \in Workers :
            /\ response[w].method = "get_csrf_token" =>
                   /\ response[w].status = "PermissionError"
                   /\ response[w].raisedBy = "handler"
            /\ response[w].method = "get_boot" => response[w].status = "ok"
            /\ pc[w] = "idle"
            /\ call[w] = NoCall
            /\ local[w] \in {Unbound, store}
            /\ lastForcedBy = "none"

C9_Witness ==
    /\ user = "Guest"
    /\ response["w1"].method = "get_csrf_token"
    /\ response["w1"].status = "PermissionError"
    /\ BootDone("w2")

\* the steps of a successful get_new_doc, in order
StepsInOrder(r) ==
    LET s == r.steps
        fields == get_meta(r.doctype).fields
        required == {i \in DOMAIN fields :
                        fields[i].fieldtype = "Table" /\ fields[i].reqd = 1}
    IN /\ Len(s) >= 4
       /\ s[1] = "has_permission" /\ s[2] = "new_doc" /\ s[3] = "onload"
       /\ s[Len(s)] = "as_dict"
       /\ \A x \in {"has_permission", "new_doc", "onload", "as_dict"} : Count(s, x) = 1
       /\ IF WmcTruthy(r.wmc)
          THEN /\ s[4] = "get_meta" /\ Count(s, "get_meta") = 1
               /\ \A i \in 5..(Len(s) - 1) : s[i] = "append"
               /\ Count(s, "append") = Cardinality(required)
          ELSE Len(s) = 4

\* C10: a successful get_new_doc runs has_permission, new_doc, onload, then (only
\* with with_mandatory_children) get_meta and the appends, then as_dict, each once
\* and in that order; the instance returned is unsaved; no call of any endpoint
\* changes the persisted documents, and a get_boot or get_new_doc call leaves the
\* session's token field and the stored session record alone.
C10_OrderAndFrame ==
    /\ [](\A w \in Workers :
             NewDocDone(w) =>
                 /\ StepsInOrder(response[w])
                 /\ response[w].result.__islocal)
    /\ [][/\ db' = db
          /\ \A w \in Workers :
                (/\ response'[w] # response[w]
                 /\ response'[w].method \in {"get_boot", "get_new_doc"})
                    => (local' = local /\ store' = store)]_vars

\* required rows were appended for a logged-in caller whose session holds a token
C10_Witness ==
    /\ NewDocDone("w1")
    /\ Count(response["w1"].steps, "append") = 2
    /\ Truthy(local["w1"])
    /\ db = {}

=============================================================================
